---- MODULE Spec2Model ----
(***************************************************************************)
(* Model of the ai-job-copilot backend: the scrape / analyze / persist     *)
(* pipeline (routers/jobs.py), its two language-model contracts            *)
(* (services/llm_service.py), the single and bulk content fetchers         *)
(* (services/scraper_service.py) and the storage layer (crud/jobs.py,      *)
(* models/job.py).                                                         *)
(***************************************************************************)
EXTENDS Integers, Sequences, FiniteSets, TLC

VARIABLES
    jobs,                \* the "jobs" table: a set of rows (models/job.py)
    nextId,              \* next primary key the table hands out
    FIRECRAWL_API_KEY,   \* core/config.py: TRUE iff the key is set
    GEMINI_API_KEY,      \* core/config.py: TRUE iff the key is set
    kind,                \* "none" | "single" | "batch": the request being served
    pc,                  \* position of the request handler
    job_url,             \* request.job_url (an HttpUrl, as the client sent it)
    scraped_content,     \* result of scrape_job_url
    analysis_results,    \* result of analyze_job_description
    final_analysis,      \* the normalised record (first element of a list, or the dict)
    db_job,              \* id of the row create_job returned, 0 before
    job_links,           \* result of extract_job_links_from_content
    scraped_items,       \* result of batch_scrape_job_urls
    idx,                 \* per-item loop index of the batch run
    staged,              \* candidates staged by the batch run
    item_log,            \* what the batch loop did with each item, in order
    outcome,             \* how the run ended
    calls,               \* external calls issued by the current run
    jobs0,               \* the table as it was when the current run started
    created,             \* ids of the rows the current run inserted
    batch_response,      \* bulk fetcher: the provider's response
    bulk_result,         \* bulk fetcher: what batch_scrape_job_urls did with it
    scrape_response,     \* content fetcher: the provider's response to this run
    link_answer,         \* link extractor: the model's answer
    link_result,         \* link extractor: what extract_job_links_from_content did with it
    last_op,             \* the last CRUD request and the response it got
    nOps                 \* CRUD requests served so far

vars == << jobs, nextId, FIRECRAWL_API_KEY, GEMINI_API_KEY, kind, pc, job_url,
           scraped_content, analysis_results, final_analysis, db_job, job_links,
           scraped_items, idx, staged, item_log, outcome, calls, jobs0, created,
           batch_response, bulk_result, scrape_response, link_answer, link_result,
           last_op, nOps >>

dbVars    == << jobs, nextId >>
cfgVars   == << FIRECRAWL_API_KEY, GEMINI_API_KEY >>
bulkVars  == << batch_response, bulk_result >>
linkVars  == << link_answer, link_result >>
storeVars == << last_op, nOps >>

-----------------------------------------------------------------------------
(* Bounds of the model.                                                    *)

MaxId    == 3    \* rows ever inserted
MaxItems == 2    \* items in one provider batch response / links in one answer
MaxBulk  == 2    \* items in one provider response, for the bulk fetcher on its own
MaxLinks == 2    \* elements of the list in one answer of the link model
MaxOps   == 3    \* CRUD requests served in one behaviour

-----------------------------------------------------------------------------
(* Python values.                                                          *)

NoneStr == "<None>"      \* Python None where a str is expected
ABSENT  == "<absent>"    \* a key that is not in a dict
JNULL   == "<null>"      \* a JSON null stored under a key

Keys == {"job_title", "company_name", "key_skills"}

MkDict(t, c, k) == [job_title |-> t, company_name |-> c, key_skills |-> k]

EmptyDict == MkDict(ABSENT, ABSENT, ABSENT)

\* The dicts a model answer may hold: complete, one or both name fields
\* missing, empty, and a null where a string is expected.
Dicts ==
    { MkDict("Backend Engineer", "Acme", "Python"),
      MkDict(ABSENT, "Acme", "Python"),
      MkDict("Backend Engineer", ABSENT, ABSENT),
      MkDict(ABSENT, ABSENT, "Python"),
      EmptyDict,
      MkDict(JNULL, "Acme", ABSENT) }

\* dict.get(key, default)
Get(d, key, default) == IF d[key] = ABSENT THEN default ELSE d[key]

\* isinstance(v, str) for a value stored under a key
IsStr(v) == v # JNULL /\ v # ABSENT

\* An element of a JSON list: a dict or a string.
DictElem(d) == [k |-> "dict", d |-> d]
StrElem     == [k |-> "str", d |-> EmptyDict]

\* A parsed JSON document (or None): k is its Python type.
JNone       == [k |-> "none", d |-> EmptyDict, l |-> << >>]
JDict(d)    == [k |-> "dict", d |-> d, l |-> << >>]
JList(l)    == [k |-> "list", d |-> EmptyDict, l |-> l]
JStr        == [k |-> "str",  d |-> EmptyDict, l |-> << >>]

ElemToJson(e) == [k |-> e.k, d |-> e.d, l |-> << >>]

\* Python truthiness: None, {} and [] are falsy.
Truthy(j) ==
    CASE j.k = "none" -> FALSE
      [] j.k = "dict" -> \E key \in Keys : j.d[key] # ABSENT
      [] j.k = "list" -> Len(j.l) > 0
      [] OTHER        -> TRUE

\* What the model call of analyze_job_description can come back with:
\* the call raises, the text is not JSON, or the text parses to a document.
AnalysisJsons ==
    { JDict(d) : d \in Dicts }
      \cup { JList(<< DictElem(d) >>) : d \in Dicts }
      \cup { JList(<< >>), JList(<< StrElem >>), JStr, JNone,
             JList(<< DictElem(MkDict("Backend Engineer", "Acme", "Python")),
                      DictElem(MkDict("Data Engineer", "Initech", ABSENT)) >>) }

LlmAnswers ==
    { [t |-> "error", j |-> JNone], [t |-> "text", j |-> JNone] }
      \cup { [t |-> "json", j |-> j] : j \in AnalysisJsons }

-----------------------------------------------------------------------------
(* URLs.  A request carries an HttpUrl; str() of it is what is fetched and *)
(* stored, and str() adds the "/" path to a URL that has none.             *)

RequestUrls == {"https://a.example", "https://a.example/", "https://b.example/jobs/1"}

UrlStr(u) == IF u = "https://a.example" THEN "https://a.example/" ELSE u

-----------------------------------------------------------------------------
(* services/scraper_service.py                                             *)

Ret(v)      == [exc |-> "", val |-> v]
Raise(e, v) == [exc |-> e, val |-> v]

\* What the provider's scrape_url can do: raise ("error": the call itself
\* fails; "status": the provider answers with a non-success status, which
\* the client library raises), or return a document whose markdown is None,
\* empty or text.
ScrapeResponses ==
    { [t |-> "error", markdown |-> NoneStr],
      [t |-> "status", markdown |-> NoneStr],
      [t |-> "ok", markdown |-> NoneStr],
      [t |-> "ok", markdown |-> ""],
      [t |-> "ok", markdown |-> "We are hiring"] }

\* no provider call was made
NoScrape == [t |-> "none", markdown |-> NoneStr]

\* the same without the try/except around the provider call
scrape_job_url_NoTry(key, resp) ==
    IF ~key THEN Raise("ValueError", NoneStr)
    ELSE IF resp.t \in {"error", "status"} THEN Raise("Exception", NoneStr)
    ELSE Ret(resp.markdown)

scrape_job_url(key, resp) ==
    IF ~key THEN Raise("ValueError", NoneStr)
    ELSE IF resp.t \in {"error", "status"} THEN Ret(NoneStr)
    ELSE Ret(resp.markdown)

\* `scraped_content is None` in place of `not scraped_content`
NoContent_NoneOnly(c) == c = NoneStr

\* `not scraped_content`
NoContent(c) == c = NoneStr \/ c = ""

\* Finite sequences over S of length at most n.
SeqUpTo(S, n) == UNION { [1..m -> S] : m \in 0..n }

\* One element of the provider's batch result.  shape is its Python type:
\*   "doc"      a FirecrawlDocument (markdown, metadata, url attributes)
\*   "dict"     a dict with some of the keys success, markdown, metadata, url
\*   "tuple"    a non-empty tuple whose first element is such a dict
\*   "tuple_nd" a non-empty tuple whose first element is not a dict
\*   "tuple0"   the empty tuple
\*   "other"    anything else
\* success is "True", "False", "truthy" (a value that is not the bool True,
\* such as 1 or "true") or ABSENT; markdown is text, "" or NoneStr (None or no
\* such key); metadata is the sourceURL it carries or ABSENT; url is a URL or
\* ABSENT.
Item(shape, success, markdown, metadata, url) ==
    [shape |-> shape, success |-> success, markdown |-> markdown,
     metadata |-> metadata, url |-> url]

DataDict(success, markdown, metadata, url) ==
    [success |-> success, markdown |-> markdown, metadata |-> metadata, url |-> url]

NotADict == DataDict("<notadict>", NoneStr, ABSENT, ABSENT)

\* Lines 58-78: the dict the loop works with, NotADict when the item is skipped.
Unify(item) ==
    CASE item.shape = "doc" ->
            DataDict(IF item.markdown # NoneStr THEN "True" ELSE "False",
                     item.markdown, item.metadata, item.url)
      [] item.shape = "tuple" ->
            DataDict(item.success, item.markdown, item.metadata, item.url)
      [] item.shape = "dict" ->
            DataDict(item.success, item.markdown, item.metadata, item.url)
      [] OTHER -> NotADict

\* Line 86 without the markdown test
Successful_SuccessOnly(dd) == dd.success = "True"

\* Line 86: data_dict.get('success') is True and data_dict.get('markdown')
Successful(dd) == dd.success = "True" /\ dd.markdown # NoneStr /\ dd.markdown # ""

\* Lines 85-92 applied to every item of results_list
RECURSIVE ProcessResults(_)
ProcessResults(results_list) ==
    IF results_list = << >> THEN << >>
    ELSE LET dd   == Unify(Head(results_list))
             rest == ProcessResults(Tail(results_list))
         IN IF dd # NotADict /\ Successful(dd) THEN << dd >> \o rest ELSE rest

\* The provider's batch_scrape_urls: it raises ("error"), or returns a list
\* ("list"), an object with a .data attribute ("data"), or something else
\* ("other").
BatchResponse(t, items) == [t |-> t, items |-> items]

\* the same without the try/except around the provider call
batch_scrape_job_urls_NoTry(key, resp) ==
    IF ~key THEN Raise("ValueError", << >>)
    ELSE IF resp.t = "error" THEN Raise("Exception", << >>)
    ELSE LET results_list == IF resp.t \in {"list", "data"} THEN resp.items ELSE << >>
         IN IF results_list = << >> THEN Ret(<< >>)
            ELSE Ret(ProcessResults(results_list))

batch_scrape_job_urls(key, resp) ==
    IF ~key THEN Raise("ValueError", << >>)
    ELSE IF resp.t = "error" THEN Ret(<< >>)
    ELSE LET results_list == IF resp.t \in {"list", "data"} THEN resp.items ELSE << >>
         IN IF results_list = << >> THEN Ret(<< >>)
            ELSE Ret(ProcessResults(results_list))

-----------------------------------------------------------------------------
(* services/llm_service.py                                                 *)

\* the same without the try/except around the model call and json.loads
analyze_job_description_NoTry(key, answer) ==
    IF ~key THEN Raise("ValueError", JNone)
    ELSE IF answer.t = "error" THEN Raise("Exception", JNone)
    ELSE IF answer.t = "text" THEN Raise("JSONDecodeError", JNone)
    ELSE Ret(answer.j)

analyze_job_description(key, answer) ==
    IF ~key THEN Raise("ValueError", JNone)
    ELSE IF answer.t \in {"error", "text"} THEN Ret(JNone)
    ELSE Ret(answer.j)

\* What the model call of extract_job_links_from_content can come back with.
\* k is the Python type of the parsed document; for a dict, urls_k says what
\* is under "job_urls": "absent", "list" (then l holds the list) or "str".
LinkJson(k, urls_k, l) == [k |-> k, urls_k |-> urls_k, l |-> l]

LinkAnswer(t, j) == [t |-> t, j |-> j]

\* the same without the try/except around the model call and json.loads
extract_job_links_from_content_NoTry(key, answer) ==
    IF ~key THEN Raise("ValueError", << >>)
    ELSE IF answer.t = "error" THEN Raise("Exception", << >>)
    ELSE IF answer.t = "text" THEN Raise("JSONDecodeError", << >>)
    ELSE IF answer.j.k = "dict" /\ answer.j.urls_k = "list" THEN Ret(answer.j.l)
    ELSE Ret(<< >>)

\* the same returning a bare list as well
extract_job_links_from_content_AnyList(key, answer) ==
    IF ~key THEN Raise("ValueError", << >>)
    ELSE IF answer.t \in {"error", "text"} THEN Ret(<< >>)
    ELSE IF answer.j.k \in {"dict", "list"} /\ Len(answer.j.l) > 0 THEN Ret(answer.j.l)
    ELSE Ret(<< >>)

extract_job_links_from_content(key, answer) ==
    IF ~key THEN Raise("ValueError", << >>)
    ELSE IF answer.t \in {"error", "text"} THEN Ret(<< >>)
    ELSE IF answer.j.k = "dict" /\ answer.j.urls_k = "list" THEN Ret(answer.j.l)
    ELSE Ret(<< >>)

-----------------------------------------------------------------------------
(* models/job.py, crud/jobs.py                                             *)

Row(id, t, c, u) ==
    [id |-> id, job_title |-> t, company_name |-> c, job_url |-> u,
     job_description |-> NoneStr, analysis_results |-> JNone, status |-> "saved"]

\* job_url declared without unique=True
UniqueViolation_NoConstraint(table, u) == FALSE

\* Column(String, unique=True) on job_url
UniqueViolation(table, u) == \E r \in table : r.job_url = u

\* JobCreate(job_title=..., company_name=..., job_url=...): both names must be str
JobCreateValid(t, c) == IsStr(t) /\ IsStr(c)

\* the same with the constraint looked up under the URL as the client sent it
create_job_RawUrlCheck(table, id, t, c, u) ==
    IF UniqueViolation(table, u)
    THEN [exc |-> "IntegrityError", table |-> table, id |-> 0]
    ELSE [exc |-> "", table |-> table \cup {Row(id, t, c, UrlStr(u))}, id |-> id]

\* create_job: the row is inserted and committed, or the commit raises
create_job(table, id, t, c, u) ==
    IF UniqueViolation(table, UrlStr(u))
    THEN [exc |-> "IntegrityError", table |-> table, id |-> 0]
    ELSE [exc |-> "", table |-> table \cup {Row(id, t, c, UrlStr(u))}, id |-> id]

ApplicationStatus == {"saved", "applied", "interviewing", "offer", "rejected"}

\* get_job returns None when no row has the id
NoJob == Row(0, NoneStr, NoneStr, NoneStr)

get_job(table, job_id) ==
    IF \E r \in table : r.id = job_id
    THEN CHOOSE r \in table : r.id = job_id
    ELSE NoJob

\* A JobUpdate body: each field is a value, an explicit null, or not set.
UNSET == "<unset>"

JobUpdate(t, c, st) == [job_title |-> t, company_name |-> c, status |-> st]

NoUpdate == JobUpdate(UNSET, UNSET, UNSET)

\* model_dump() without exclude_unset: a field that is not set dumps as None
SetAttrs_AllFields(row, upd) ==
    [row EXCEPT !.job_title    = IF upd.job_title = UNSET THEN NoneStr ELSE upd.job_title,
                !.company_name = IF upd.company_name = UNSET THEN NoneStr ELSE upd.company_name,
                !.status       = IF upd.status = UNSET THEN NoneStr ELSE upd.status]

\* model_dump(exclude_unset=True), then setattr for every key of the dump
SetAttrs(row, upd) ==
    [row EXCEPT !.job_title    = IF upd.job_title = UNSET THEN @ ELSE upd.job_title,
                !.company_name = IF upd.company_name = UNSET THEN @ ELSE upd.company_name,
                !.status       = IF upd.status = UNSET THEN @ ELSE upd.status]

\* update_job: None when the id is unknown, else the row updated and committed
update_job(table, job_id, upd) ==
    LET row == get_job(table, job_id)
    IN IF row = NoJob THEN [found |-> FALSE, table |-> table, row |-> NoJob]
       ELSE [found |-> TRUE, table |-> (table \ {row}) \cup {SetAttrs(row, upd)},
             row |-> SetAttrs(row, upd)]

\* delete_job: None when the id is unknown, else the row deleted and committed
delete_job(table, job_id) ==
    LET row == get_job(table, job_id)
    IN IF row = NoJob THEN [found |-> FALSE, table |-> table, row |-> NoJob]
       ELSE [found |-> TRUE, table |-> table \ {row}, row |-> row]

-----------------------------------------------------------------------------
(* Run bookkeeping.                                                        *)

\* persist counts inserts (create_job, the batch create), update the later
\* write of the single-URL handler
NoCalls == [fetch |-> 0, links |-> 0, bulk |-> 0, analyze |-> 0, persist |-> 0,
            update |-> 0]

NoOutcome       == [status |-> "none", detail |-> "", count |-> 0]
Completed(n)    == [status |-> "Completed", detail |-> "", count |-> n]
Aborted(reason) == [status |-> "Aborted", detail |-> reason, count |-> 0]
Raised(e)       == [status |-> "Raised", detail |-> e, count |-> 0]

Count(f, what) == [f EXCEPT ![what] = @ + 1]

Idle == pc = "idle"

runVars == << kind, pc, job_url, scraped_content, scrape_response, analysis_results,
              final_analysis,
              db_job, job_links, scraped_items, idx, staged, item_log, outcome,
              calls, jobs0, created >>

\* A new request resets the handler's locals.
StartRun(k, u) ==
    /\ Idle
    /\ kind' = k
    /\ job_url' = u
    /\ jobs0' = jobs
    /\ analysis_results' = JNone
    /\ final_analysis' = JNone
    /\ db_job' = 0
    /\ job_links' = << >>
    /\ scraped_items' = << >>
    /\ idx' = 0
    /\ staged' = << >>
    /\ item_log' = << >>
    /\ created' = {}

Finish(o) ==
    /\ pc' = "done"
    /\ outcome' = o

-----------------------------------------------------------------------------
(* routers/jobs.py: POST /jobs/  (create_new_job)                          *)

create_new_job(u) ==
    /\ Idle
    /\ nextId <= MaxId
    /\ LET r == create_job(jobs, nextId, "Manual title", "Manual company", u)
       IN /\ jobs' = r.table
          /\ nextId' = IF r.exc = "" THEN nextId + 1 ELSE nextId
    /\ UNCHANGED << cfgVars, runVars, bulkVars, linkVars, storeVars >>

-----------------------------------------------------------------------------
(* routers/jobs.py: the CRUD endpoints, each with the response it sends.   *)

Op(op, id, u, upd, code) ==
    [op |-> op, id |-> id, url |-> u, upd |-> upd, code |-> code]

NoOp == Op("none", 0, "", NoUpdate, 0)

\* No pipeline run is between two of its steps.
Quiet == pc \in {"idle", "done"}

\* response_model=Job: the row serialises only with both names and a status
ResponseValid(row) ==
    /\ row.job_title # NoneStr
    /\ row.company_name # NoneStr
    /\ row.status \in ApplicationStatus

\* The status of a handler that answers 404 for None and the row otherwise.
RowStatus(row) ==
    IF row = NoJob THEN 404 ELSE IF ResponseValid(row) THEN 200 ELSE 500

Respond(op, id, u, upd, code) ==
    /\ last_op' = Op(op, id, u, upd, code)
    /\ nOps' = nOps + 1

\* POST /jobs/ : create_new_job, the response recorded
CreateRequest(u) ==
    /\ Quiet /\ nOps < MaxOps
    /\ LET r == create_job(jobs, nextId, "Manual title", "Manual company", u)
       IN /\ jobs' = r.table
          /\ nextId' = IF r.exc = "" THEN nextId + 1 ELSE nextId
          /\ Respond("create", r.id, u, NoUpdate, IF r.exc = "" THEN 201 ELSE 500)
    /\ UNCHANGED << cfgVars, runVars, bulkVars, linkVars >>

\* GET /jobs/{job_id}
read_single_job(job_id) ==
    /\ nOps < MaxOps
    /\ Respond("read", job_id, "", NoUpdate, RowStatus(get_job(jobs, job_id)))
    /\ UNCHANGED << dbVars, cfgVars, runVars, bulkVars, linkVars >>

\* PUT /jobs/{job_id}
update_existing_job(job_id, upd) ==
    /\ Quiet /\ nOps < MaxOps
    /\ LET r == update_job(jobs, job_id, upd)
       IN /\ jobs' = r.table
          /\ Respond("update", job_id, "", upd, RowStatus(r.row))
    /\ UNCHANGED << nextId, cfgVars, runVars, bulkVars, linkVars >>

\* DELETE /jobs/{job_id}
delete_existing_job(job_id) ==
    /\ Quiet /\ nOps < MaxOps
    /\ LET r == delete_job(jobs, job_id)
       IN /\ jobs' = r.table
          /\ Respond("delete", job_id, "", NoUpdate, RowStatus(r.row))
    /\ UNCHANGED << nextId, cfgVars, runVars, bulkVars, linkVars >>

-----------------------------------------------------------------------------
(* routers/jobs.py: POST /jobs/scrape  (scrape_analyze_and_create_job)     *)

\* Step 1: scrape the content
Scrape(u, resp) ==
    /\ StartRun("single", u)
    /\ LET r == scrape_job_url(FIRECRAWL_API_KEY, resp)
       IN /\ scraped_content' = r.val
          /\ scrape_response' = IF FIRECRAWL_API_KEY THEN resp ELSE NoScrape
          /\ calls' = IF r.exc = "" THEN Count(NoCalls, "fetch") ELSE NoCalls
          /\ IF r.exc # "" THEN Finish(Raised(r.exc))
             ELSE IF NoContent(r.val) THEN Finish(Aborted("Failed to scrape URL."))
             ELSE pc' = "analyze" /\ outcome' = NoOutcome
    /\ UNCHANGED << dbVars, cfgVars, bulkVars, linkVars, storeVars >>

\* Step 2 calling the LLM a second time when the first answer is unusable
Analyze_RetryOnce(answer) ==
    /\ kind = "single" /\ pc = "analyze"
    /\ LET r == analyze_job_description(GEMINI_API_KEY, answer)
       IN /\ analysis_results' = r.val
          /\ calls' = IF r.exc = "" THEN Count(calls, "analyze") ELSE calls
          /\ IF r.exc # "" THEN
                 Finish(Raised(r.exc)) /\ UNCHANGED final_analysis
             ELSE IF ~Truthy(r.val) THEN
                 /\ IF calls.analyze = 0 THEN UNCHANGED << pc, outcome >>
                    ELSE Finish(Aborted("Failed to analyze job description."))
                 /\ UNCHANGED final_analysis
             ELSE IF r.val.k = "list" THEN
                 IF Len(r.val.l) > 0
                 THEN /\ final_analysis' = ElemToJson(r.val.l[1])
                      /\ pc' = "create" /\ UNCHANGED outcome
                 ELSE /\ Finish(Aborted("LLM analysis returned an empty list."))
                      /\ UNCHANGED final_analysis
             ELSE IF r.val.k = "dict" THEN
                 /\ final_analysis' = r.val
                 /\ pc' = "create" /\ UNCHANGED outcome
             ELSE
                 /\ Finish(Aborted("LLM analysis returned an unexpected type."))
                 /\ UNCHANGED final_analysis
    /\ UNCHANGED << dbVars, cfgVars, bulkVars, linkVars, storeVars, kind, job_url,
                    scraped_content, scrape_response, db_job,
                    job_links, scraped_items, idx, staged, item_log, jobs0, created >>

\* Step 2: analyze the content with the LLM, then look at the answer's type
Analyze(answer) ==
    /\ kind = "single" /\ pc = "analyze"
    /\ LET r == analyze_job_description(GEMINI_API_KEY, answer)
       IN /\ analysis_results' = r.val
          /\ calls' = IF r.exc = "" THEN Count(calls, "analyze") ELSE calls
          /\ IF r.exc # "" THEN
                 Finish(Raised(r.exc)) /\ UNCHANGED final_analysis
             ELSE IF ~Truthy(r.val) THEN
                 /\ Finish(Aborted("Failed to analyze job description."))
                 /\ UNCHANGED final_analysis
             ELSE IF r.val.k = "list" THEN
                 IF Len(r.val.l) > 0
                 THEN /\ final_analysis' = ElemToJson(r.val.l[1])
                      /\ pc' = "create" /\ UNCHANGED outcome
                 ELSE /\ Finish(Aborted("LLM analysis returned an empty list."))
                      /\ UNCHANGED final_analysis
             ELSE IF r.val.k = "dict" THEN
                 /\ final_analysis' = r.val
                 /\ pc' = "create" /\ UNCHANGED outcome
             ELSE
                 /\ Finish(Aborted("LLM analysis returned an unexpected type."))
                 /\ UNCHANGED final_analysis
    /\ UNCHANGED << dbVars, cfgVars, bulkVars, linkVars, storeVars, kind, job_url,
                    scraped_content, scrape_response, db_job,
                    job_links, scraped_items, idx, staged, item_log, jobs0, created >>

\* The object whose .get() Step 3 calls to fill JobCreate.
AnalysisRead(results, final) == results

\* analysis_results.get("job_title", "Title not found")
JobTitleOf_SwappedDefault(d) == Get(d, "job_title", "Company not found")

JobTitleOf(d) == Get(d, "job_title", "Title not found")

\* analysis_results.get("company_name", "Company not found")
CompanyNameOf(d) == Get(d, "company_name", "Company not found")

\* Step 3: create the job entry using data from the analysis
CreateJob ==
    /\ kind = "single" /\ pc = "create"
    /\ LET src == AnalysisRead(analysis_results, final_analysis)
       IN IF src.k # "dict" THEN
              \* a list has no .get
              /\ Finish(Raised("AttributeError"))
              /\ UNCHANGED << dbVars, db_job, created, calls >>
          ELSE
              LET t == JobTitleOf(src.d)
                  c == CompanyNameOf(src.d)
              IN IF ~JobCreateValid(t, c) THEN
                     /\ Finish(Raised("ValidationError"))
                     /\ UNCHANGED << dbVars, db_job, created, calls >>
                 ELSE
                     LET r == create_job(jobs, nextId, t, c, job_url)
                     IN /\ calls' = Count(calls, "persist")
                        /\ jobs' = r.table
                        /\ IF r.exc # ""
                           THEN /\ Finish(Raised(r.exc))
                                /\ UNCHANGED << nextId, db_job, created >>
                           ELSE /\ nextId' = nextId + 1
                                /\ db_job' = r.id
                                /\ created' = {r.id}
                                /\ pc' = "update" /\ UNCHANGED outcome
    /\ UNCHANGED << cfgVars, bulkVars, linkVars, storeVars, kind, job_url,
                    scraped_content, scrape_response, analysis_results,
                    final_analysis, job_links, scraped_items, idx, staged, item_log,
                    jobs0 >>

\* Step 4 without the assignment of job_description
CommitAnalysis_NoDescription ==
    /\ kind = "single" /\ pc = "update"
    /\ jobs' = { IF r.id = db_job
                 THEN [r EXCEPT !.analysis_results = analysis_results]
                 ELSE r : r \in jobs }
    /\ calls' = Count(calls, "update")
    /\ Finish(Completed(1))
    /\ UNCHANGED << nextId, cfgVars, bulkVars, linkVars, storeVars, kind, job_url,
                    scraped_content, scrape_response,
                    analysis_results, final_analysis, db_job, job_links, scraped_items,
                    idx, staged, item_log, jobs0, created >>

\* Step 4: add the full description and analysis JSON to the record
CommitAnalysis ==
    /\ kind = "single" /\ pc = "update"
    /\ jobs' = { IF r.id = db_job
                 THEN [r EXCEPT !.job_description = scraped_content,
                                !.analysis_results = analysis_results]
                 ELSE r : r \in jobs }
    /\ calls' = Count(calls, "update")
    /\ Finish(Completed(1))
    /\ UNCHANGED << nextId, cfgVars, bulkVars, linkVars, storeVars, kind, job_url,
                    scraped_content, scrape_response,
                    analysis_results, final_analysis, db_job, job_links, scraped_items,
                    idx, staged, item_log, jobs0, created >>


-----------------------------------------------------------------------------
(* The batch pipeline (search URL -> links -> bulk fetch -> per-item       *)
(* analysis -> one commit).  Its orchestrator composes scrape_job_url,     *)
(* extract_job_links_from_content, batch_scrape_job_urls and               *)
(* analyze_job_description; the orchestrator's own steps follow the        *)
(* design's state machine (spec section 4.5).                              *)

SearchUrls == {"https://b.example/search?q=python"}

U_B == "https://b.example/jobs/1"
U_C == "https://c.example/jobs/2"

LinkElems == {U_B, "Apply now"}

LinkAnswers ==
    { LinkAnswer("error", LinkJson("none", "absent", << >>)),
      LinkAnswer("text", LinkJson("none", "absent", << >>)),
      LinkAnswer("json", LinkJson("list", "absent", << >>)),
      LinkAnswer("json", LinkJson("dict", "absent", << >>)),
      LinkAnswer("json", LinkJson("dict", "str", << >>)) }
      \cup { LinkAnswer("json", LinkJson("dict", "list", l)) :
                l \in SeqUpTo(LinkElems, MaxItems) }

PipelineItems ==
    { Item("doc", ABSENT, "# Backend Engineer", U_B, ABSENT),
      Item("doc", ABSENT, "# Data Engineer", U_C, ABSENT),
      Item("dict", "True", "# No address", ABSENT, ABSENT),
      Item("dict", "False", NoneStr, ABSENT, U_B) }

PipelineResponses ==
    { BatchResponse("error", << >>) }
      \cup { BatchResponse("list", l) : l \in SeqUpTo(PipelineItems, MaxItems) }

\* The URL an item is reconnected to: its url, else its metadata's sourceURL.
SourceUrl(dd) == IF dd.url # ABSENT THEN dd.url ELSE dd.metadata

Candidate(t, c, u, text, analysis) ==
    [job_title |-> t, company_name |-> c, job_url |-> u,
     job_description |-> text, analysis_results |-> analysis]

\* Section 4.4: a single object, or a list whose first element is the answer.
Normalize(j) ==
    IF j.k = "list" /\ Len(j.l) > 0 THEN ElemToJson(j.l[1]) ELSE j

\* Step 4b/4c for one item: the candidate staged, or the reason it is skipped.
StageItem(dd, r) ==
    IF ~Truthy(r.val) THEN [log |-> "failed", staged |-> << >>]
    ELSE LET rec == Normalize(r.val)
         IN IF rec.k # "dict" THEN [log |-> "failed", staged |-> << >>]
            ELSE LET t == JobTitleOf(rec.d)
                     c == CompanyNameOf(rec.d)
                 IN IF ~JobCreateValid(t, c)
                    THEN [log |-> "failed", staged |-> << >>]
                    ELSE [log |-> "staged",
                          staged |-> << Candidate(t, c, SourceUrl(dd), dd.markdown, rec) >>]

\* Storage's batch create: every candidate inserted in one transaction, or
\* none when a job_url is already taken (in the table or twice in the batch).
BatchConflict(table, cands) ==
    \/ \E i \in 1..Len(cands) : UniqueViolation(table, cands[i].job_url)
    \/ \E i, j \in 1..Len(cands) : i # j /\ cands[i].job_url = cands[j].job_url

BatchRows(id, cands) ==
    { [Row(id + i - 1, cands[i].job_title, cands[i].company_name, cands[i].job_url)
         EXCEPT !.job_description = cands[i].job_description,
                !.analysis_results = cands[i].analysis_results] :
      i \in 1..Len(cands) }

\* Step 1: fetch the search page
BatchFetch(u, resp) ==
    /\ StartRun("batch", u)
    /\ LET r == scrape_job_url(FIRECRAWL_API_KEY, resp)
       IN /\ scraped_content' = r.val
          /\ scrape_response' = IF FIRECRAWL_API_KEY THEN resp ELSE NoScrape
          /\ calls' = IF r.exc = "" THEN Count(NoCalls, "fetch") ELSE NoCalls
          /\ IF r.exc # "" THEN Finish(Raised(r.exc))
             ELSE IF NoContent(r.val) THEN Finish(Aborted("fetch-failed"))
             ELSE pc' = "links" /\ outcome' = NoOutcome
    /\ UNCHANGED << dbVars, cfgVars, bulkVars, linkVars, storeVars >>

\* Step 2 without the test for an empty result
BatchLinks_NoEmptyCheck(answer) ==
    /\ kind = "batch" /\ pc = "links"
    /\ LET r == extract_job_links_from_content(GEMINI_API_KEY, answer)
       IN /\ job_links' = r.val
          /\ calls' = IF r.exc = "" THEN Count(calls, "links") ELSE calls
          /\ IF r.exc # "" THEN Finish(Raised(r.exc))
             ELSE pc' = "bulk" /\ UNCHANGED outcome
    /\ UNCHANGED << dbVars, cfgVars, bulkVars, linkVars, storeVars, kind, job_url,
                    scraped_content, scrape_response,
                    analysis_results, final_analysis, db_job, scraped_items, idx,
                    staged, item_log, jobs0, created >>

\* Step 2: discover links
BatchLinks(answer) ==
    /\ kind = "batch" /\ pc = "links"
    /\ LET r == extract_job_links_from_content(GEMINI_API_KEY, answer)
       IN /\ job_links' = r.val
          /\ calls' = IF r.exc = "" THEN Count(calls, "links") ELSE calls
          /\ IF r.exc # "" THEN Finish(Raised(r.exc))
             ELSE IF r.val = << >> THEN Finish(Aborted("no-links-found"))
             ELSE pc' = "bulk" /\ UNCHANGED outcome
    /\ UNCHANGED << dbVars, cfgVars, bulkVars, linkVars, storeVars, kind, job_url,
                    scraped_content, scrape_response,
                    analysis_results, final_analysis, db_job, scraped_items, idx,
                    staged, item_log, jobs0, created >>

\* Step 3 without the test for an empty result
BatchBulk_NoEmptyCheck(resp) ==
    /\ kind = "batch" /\ pc = "bulk"
    /\ LET r == batch_scrape_job_urls(FIRECRAWL_API_KEY, resp)
       IN /\ scraped_items' = r.val
          /\ calls' = IF r.exc = "" THEN Count(calls, "bulk") ELSE calls
          /\ IF r.exc # "" THEN Finish(Raised(r.exc)) /\ UNCHANGED idx
             ELSE pc' = "loop" /\ idx' = 1 /\ UNCHANGED outcome
    /\ UNCHANGED << dbVars, cfgVars, bulkVars, linkVars, storeVars, kind, job_url,
                    scraped_content, scrape_response,
                    analysis_results, final_analysis, db_job, job_links, staged,
                    item_log, jobs0, created >>

\* Step 3: bulk fetch
BatchBulk(resp) ==
    /\ kind = "batch" /\ pc = "bulk"
    /\ LET r == batch_scrape_job_urls(FIRECRAWL_API_KEY, resp)
       IN /\ scraped_items' = r.val
          /\ calls' = IF r.exc = "" THEN Count(calls, "bulk") ELSE calls
          /\ IF r.exc # "" THEN Finish(Raised(r.exc)) /\ UNCHANGED idx
             ELSE IF r.val = << >>
             THEN Finish(Aborted("bulk-fetch-failed")) /\ UNCHANGED idx
             ELSE pc' = "loop" /\ idx' = 1 /\ UNCHANGED outcome
    /\ UNCHANGED << dbVars, cfgVars, bulkVars, linkVars, storeVars, kind, job_url,
                    scraped_content, scrape_response,
                    analysis_results, final_analysis, db_job, job_links, staged,
                    item_log, jobs0, created >>

\* Step 4: analyze and stage one item
BatchItem(answer) ==
    /\ kind = "batch" /\ pc = "loop" /\ idx <= Len(scraped_items)
    /\ LET dd == scraped_items[idx]
       IN IF NoContent(dd.markdown) \/ SourceUrl(dd) = ABSENT THEN
              /\ item_log' = Append(item_log, "missing")
              /\ idx' = idx + 1
              /\ UNCHANGED << staged, calls, pc, outcome >>
          ELSE
              LET r == analyze_job_description(GEMINI_API_KEY, answer)
              IN IF r.exc # "" THEN
                     /\ Finish(Raised(r.exc))
                     /\ UNCHANGED << staged, calls, item_log, idx >>
                 ELSE
                     LET st == StageItem(dd, r)
                     IN /\ calls' = Count(calls, "analyze")
                        /\ item_log' = Append(item_log, st.log)
                        /\ staged' = staged \o st.staged
                        /\ idx' = idx + 1
                        /\ UNCHANGED << pc, outcome >>
    /\ UNCHANGED << dbVars, cfgVars, bulkVars, linkVars, storeVars, kind, job_url,
                    scraped_content, scrape_response,
                    analysis_results, final_analysis, db_job, job_links, scraped_items,
                    jobs0, created >>

\* Step 5: commit
BatchCommit ==
    /\ kind = "batch" /\ pc = "loop" /\ idx > Len(scraped_items)
    /\ IF staged = << >> THEN
           /\ Finish(Aborted("no-valid-jobs"))
           /\ UNCHANGED << dbVars, created, calls >>
       ELSE
           /\ calls' = Count(calls, "persist")
           /\ IF BatchConflict(jobs, staged) THEN
                  /\ Finish(Raised("IntegrityError"))
                  /\ UNCHANGED << dbVars, created >>
              ELSE
                  /\ jobs' = jobs \cup BatchRows(nextId, staged)
                  /\ nextId' = nextId + Len(staged)
                  /\ created' = { nextId + i - 1 : i \in 1..Len(staged) }
                  /\ Finish(Completed(Len(staged)))
    /\ UNCHANGED << cfgVars, bulkVars, linkVars, storeVars, kind, job_url,
                    scraped_content, scrape_response,
                    analysis_results, final_analysis, db_job, job_links, scraped_items,
                    idx, staged, item_log, jobs0 >>

-----------------------------------------------------------------------------
(* The bulk fetcher on its own: one call on any provider response.         *)

Sources == {ABSENT, U_B}

BulkItems ==
    { Item("doc", ABSENT, m, md, u) :
        m \in {NoneStr, "", "# Job"},
        md \in Sources, u \in {ABSENT} }
      \cup { Item("doc", ABSENT, m, ABSENT, U_B) : m \in {NoneStr, "", "# Job"} }
      \cup { Item("dict", sc, m, ABSENT, u) :
                sc \in {"True", "False", "truthy", ABSENT},
                m \in {NoneStr, "", "# Job"}, u \in Sources }
      \cup { Item("tuple", sc, m, ABSENT, U_B) :
                sc \in {"True", "False"}, m \in {NoneStr, "# Job"} }
      \cup { Item(sh, ABSENT, NoneStr, ABSENT, ABSENT) :
                sh \in {"tuple_nd", "tuple0", "other"} }

BulkResponses ==
    { BatchResponse("error", << >>), BatchResponse("other", << >>) }
      \cup { BatchResponse(t, l) :
                t \in {"list", "data"}, l \in SeqUpTo(BulkItems, MaxBulk) }

NoResponse == BatchResponse("none", << >>)

BulkFetch(resp) ==
    /\ batch_response = NoResponse
    /\ batch_response' = resp
    /\ bulk_result' = batch_scrape_job_urls(FIRECRAWL_API_KEY, resp)
    /\ UNCHANGED << dbVars, cfgVars, runVars, linkVars, storeVars >>

-----------------------------------------------------------------------------
(* The link extractor on its own: one call on any answer of the model.     *)

\* What the model can put in a JSON list: job links, a link text, a relative
\* path, a null.
ModelLinkElems == {U_B, U_C, "Apply now", "/jobs/view/3", JNULL}

ExtractAnswers ==
    { LinkAnswer("error", LinkJson("none", "absent", << >>)),
      LinkAnswer("text", LinkJson("none", "absent", << >>)),
      LinkAnswer("json", LinkJson("none", "absent", << >>)),
      LinkAnswer("json", LinkJson("str", "absent", << >>)),
      LinkAnswer("json", LinkJson("dict", "absent", << >>)),
      LinkAnswer("json", LinkJson("dict", "str", << >>)) }
      \cup { LinkAnswer("json", LinkJson(k, uk, l)) :
                k \in {"dict"}, uk \in {"list"}, l \in SeqUpTo(ModelLinkElems, MaxLinks) }
      \cup { LinkAnswer("json", LinkJson(k, uk, l)) :
                k \in {"list"}, uk \in {"absent"}, l \in SeqUpTo(ModelLinkElems, MaxLinks) }

NoAnswer == LinkAnswer("none", LinkJson("none", "absent", << >>))

ExtractLinks(answer) ==
    /\ link_answer = NoAnswer
    /\ link_answer' = answer
    /\ link_result' = extract_job_links_from_content(GEMINI_API_KEY, answer)
    /\ UNCHANGED << dbVars, cfgVars, runVars, bulkVars, storeVars >>

-----------------------------------------------------------------------------

Init ==
    /\ jobs = {}
    /\ nextId = 1
    /\ FIRECRAWL_API_KEY \in BOOLEAN
    /\ GEMINI_API_KEY \in BOOLEAN
    /\ kind = "none"
    /\ pc = "idle"
    /\ job_url = ""
    /\ scraped_content = NoneStr
    /\ analysis_results = JNone
    /\ final_analysis = JNone
    /\ db_job = 0
    /\ job_links = << >>
    /\ scraped_items = << >>
    /\ idx = 0
    /\ staged = << >>
    /\ item_log = << >>
    /\ outcome = NoOutcome
    /\ calls = NoCalls
    /\ jobs0 = {}
    /\ created = {}
    /\ batch_response = NoResponse
    /\ bulk_result = Ret(<< >>)
    /\ scrape_response = NoScrape
    /\ link_answer = NoAnswer
    /\ link_result = Ret(<< >>)
    /\ last_op = NoOp
    /\ nOps = 0

Next ==
    \/ \E u \in RequestUrls : create_new_job(u)
    \/ \E u \in RequestUrls, resp \in ScrapeResponses : Scrape(u, resp)
    \/ \E answer \in LlmAnswers : Analyze(answer)
    \/ CreateJob
    \/ CommitAnalysis
    \/ \E u \in SearchUrls, resp \in ScrapeResponses : BatchFetch(u, resp)
    \/ \E answer \in LinkAnswers : BatchLinks(answer)
    \/ \E resp \in PipelineResponses : BatchBulk(resp)
    \/ \E answer \in LlmAnswers : BatchItem(answer)
    \/ BatchCommit

Spec == Init /\ [][Next]_vars

\* The bulk fetcher called on every provider response.
NextBulk == batch_response = NoResponse /\ \E resp \in BulkResponses : BulkFetch(resp)

SpecBulk == Init /\ [][NextBulk]_vars

\* The link extractor called on every answer of the model.
NextLinks == link_answer = NoAnswer /\ \E answer \in ExtractAnswers : ExtractLinks(answer)

SpecLinks == Init /\ [][NextLinks]_vars

-----------------------------------------------------------------------------
(* The service over time: CRUD requests and pipeline runs, one after the   *)
(* other, reads also while a run is between two steps.                     *)

Ids == 1..MaxId

Updates ==
    { JobUpdate("Staff Engineer", UNSET, UNSET),
      JobUpdate(UNSET, "Globex", "applied"),
      JobUpdate(NoneStr, UNSET, UNSET) }

\* The single-URL run is asked for the URL without a path.
StoreRunUrls == {"https://a.example"}

StoreScrapes == { [t |-> "error", markdown |-> NoneStr],
                  [t |-> "ok", markdown |-> "We are hiring"] }

StoreAnswers ==
    { [t |-> "error", j |-> JNone],
      [t |-> "json", j |-> JDict(MkDict("Backend Engineer", "Acme", "Python"))] }

StoreLinkAnswers == { LinkAnswer("json", LinkJson("dict", "list", << U_B >>)) }

StoreResponses ==
    { BatchResponse("list", << Item("doc", ABSENT, "# Backend Engineer", U_B, ABSENT) >>),
      BatchResponse("list", << Item("doc", ABSENT, "# Backend Engineer", U_B, ABSENT),
                               Item("doc", ABSENT, "# Data Engineer", U_C, ABSENT) >>) }

\* The response of the run is sent; the handler's locals are gone.
NextRequest ==
    /\ pc = "done" /\ nOps < MaxOps
    /\ kind' = "none"
    /\ pc' = "idle"
    /\ job_url' = ""
    /\ scraped_content' = NoneStr
    /\ scrape_response' = NoScrape
    /\ analysis_results' = JNone
    /\ final_analysis' = JNone
    /\ db_job' = 0
    /\ job_links' = << >>
    /\ scraped_items' = << >>
    /\ idx' = 0
    /\ staged' = << >>
    /\ item_log' = << >>
    /\ outcome' = NoOutcome
    /\ calls' = NoCalls
    /\ jobs0' = {}
    /\ created' = {}
    /\ Respond("run", 0, "", NoUpdate, 0)
    /\ UNCHANGED << dbVars, cfgVars, bulkVars, linkVars >>

InitStore == Init /\ FIRECRAWL_API_KEY /\ GEMINI_API_KEY

NextStore ==
    \/ \E u \in RequestUrls : CreateRequest(u)
    \/ \E id \in Ids : read_single_job(id)
    \/ \E id \in Ids, upd \in Updates : update_existing_job(id, upd)
    \/ \E id \in Ids : delete_existing_job(id)
    \/ \E u \in StoreRunUrls, resp \in StoreScrapes : Scrape(u, resp)
    \/ \E answer \in StoreAnswers : Analyze(answer)
    \/ CreateJob
    \/ CommitAnalysis
    \/ \E u \in SearchUrls, resp \in StoreScrapes : BatchFetch(u, resp)
    \/ \E answer \in StoreLinkAnswers : BatchLinks(answer)
    \/ \E resp \in StoreResponses : BatchBulk(resp)
    \/ \E answer \in StoreAnswers : BatchItem(answer)
    \/ BatchCommit
    \/ NextRequest

SpecStore == InitStore /\ [][NextStore]_vars

-----------------------------------------------------------------------------
(* Properties.                                                             *)

SingleDone == kind = "single" /\ pc = "done"
BatchDone  == kind = "batch" /\ pc = "done"

\* The batch run got past the bulk fetch with N >= 1 items.
InLoop == kind = "batch" /\ scraped_items # << >>

\* Every item of the batch went through step 4.
LoopDone == BatchDone /\ InLoop /\ Len(item_log) = Len(scraped_items)

N == Len(scraped_items)

FailedIdx == { i \in 1..Len(item_log) : item_log[i] = "failed" }
StagedIdx == { i \in 1..Len(item_log) : item_log[i] = "staged" }

NewRows == jobs \ jobs0

\* A sourceUrl of the staged batch is already stored, or is staged twice.
StagedConflict ==
    \/ \E i \in 1..Len(staged) : \E r \in jobs0 : r.job_url = staged[i].job_url
    \/ \E i, j \in 1..Len(staged) : i # j /\ staged[i].job_url = staged[j].job_url

\* C1 as stated: whenever the bulk fetcher returned N >= 2 items and the
\* field extractor failed for exactly one of them, the run ends Completed
\* with count N - 1 and no record the run persisted has the failing item's
\* URL (read here as: unless another item of the batch has that URL too).
C1_AsStated ==
    (LoopDone /\ N >= 2 /\ Cardinality(FailedIdx) = 1)
        => /\ outcome = Completed(N - 1)
           /\ \A i \in FailedIdx : \A r \in NewRows :
                  \/ r.job_url # SourceUrl(scraped_items[i])
                  \/ \E j \in 1..N : j # i /\ SourceUrl(scraped_items[j]) = r.job_url

\* C1, amended: (a) a field-extractor failure never ends the batch: once
\* the loop is entered the run ends only after every item went through it;
\* (b) when N >= 2, exactly one item failed in the field extractor, every
\* other item was staged, and no staged sourceUrl is already stored or staged
\* twice, the run ends Completed(N - 1) and the rows it persisted are
\* exactly the N - 1 other items, each under its own URL and text.
C1_PerItemIsolation ==
    /\ (BatchDone /\ InLoop /\ GEMINI_API_KEY) => Len(item_log) = N
    /\ (LoopDone /\ N >= 2 /\ Cardinality(FailedIdx) = 1
          /\ Cardinality(StagedIdx) = N - 1 /\ ~StagedConflict)
        => /\ outcome = Completed(N - 1)
           /\ Cardinality(NewRows) = N - 1
           /\ \A i \in StagedIdx : \E r \in NewRows :
                  /\ r.job_url = SourceUrl(scraped_items[i])
                  /\ r.job_description = scraped_items[i].markdown
           /\ \A r \in NewRows : \E i \in StagedIdx :
                  r.job_url = SourceUrl(scraped_items[i])

C1_Witness ==
    /\ LoopDone /\ N >= 2
    /\ Cardinality(FailedIdx) = 1
    /\ outcome = Completed(N - 1)
    /\ Cardinality(NewRows) = N - 1

\* The record a one-element list answer holds, when it holds a valid one.
ListOfOneRecord(j) ==
    /\ j.k = "list" /\ Len(j.l) = 1 /\ j.l[1].k = "dict"
    /\ Truthy(ElemToJson(j.l[1]))
    /\ j.l[1].d.job_title # JNULL /\ j.l[1].d.company_name # JNULL

\* C2: a model response that is the one-element list [R] yields the record
\* the bare object R yields: when the single-URL run got [R] for a valid R
\* and the URL is not stored yet, it ends with one row holding R's title and
\* organization (or the fallbacks), the URL, the fetched text and R.
C2_ShapeNormalization ==
    (SingleDone /\ ListOfOneRecord(analysis_results)
       /\ ~ \E r \in jobs0 : r.job_url = UrlStr(job_url))
        => LET R == analysis_results.l[1].d
           IN /\ outcome = Completed(1)
              /\ \E r \in NewRows :
                    /\ NewRows = {r}
                    /\ r.job_title = (IF R.job_title = ABSENT THEN "Title not found"
                                      ELSE R.job_title)
                    /\ r.company_name = (IF R.company_name = ABSENT
                                         THEN "Company not found" ELSE R.company_name)
                    /\ r.job_url = UrlStr(job_url)
                    /\ r.job_description = scraped_content
                    /\ r.analysis_results = JDict(R)

\* C3: a record that lacks job_title (company_name) is staged with the title
\* "Title not found" (the organization "Company not found"), and the row
\* stored for it holds the same string, right after create_job and after the
\* final commit; in the batch run every staged candidate does too.
C3_FallbackFields ==
    /\ (kind = "single" /\ db_job # 0) =>
          /\ analysis_results.k = "dict"
          /\ \E r \in jobs :
                /\ r.id = db_job
                /\ analysis_results.d.job_title = ABSENT
                      => r.job_title = "Title not found"
                /\ analysis_results.d.company_name = ABSENT
                      => r.company_name = "Company not found"
    /\ \A i \in 1..Len(staged) :
          /\ staged[i].analysis_results.d.job_title = ABSENT
                => staged[i].job_title = "Title not found"
          /\ staged[i].analysis_results.d.company_name = ABSENT
                => staged[i].company_name = "Company not found"

C3_Witness ==
    /\ SingleDone /\ outcome = Completed(1)
    /\ analysis_results.d.job_title = ABSENT
    /\ analysis_results.d.company_name = ABSENT
    /\ \E r \in jobs : /\ r.id = db_job
                       /\ r.job_title = "Title not found"
                       /\ r.company_name = "Company not found"

\* The fetch succeeded and the model returned a mapping with both names.
FetchedAndMapped ==
    /\ SingleDone
    /\ ~(scraped_content = NoneStr \/ scraped_content = "")
    /\ analysis_results.k = "dict"
    /\ analysis_results.d.job_title # ABSENT
    /\ analysis_results.d.company_name # ABSENT

\* The run persisted exactly one row, built from the answer as Scenario C says.
OneRowFromAnswer ==
    /\ outcome = Completed(1)
    /\ \E r \in NewRows :
          /\ NewRows = {r}
          /\ r.id = db_job
          /\ r.job_title = analysis_results.d.job_title
          /\ r.company_name = analysis_results.d.company_name
          /\ r.job_url = UrlStr(job_url)
          /\ r.job_description = scraped_content
          /\ r.analysis_results = analysis_results
          /\ r.status = "saved"

\* C4 as stated: when the fetch succeeds and the model returns a mapping
\* containing job_title and company_name, exactly one record is persisted,
\* with those two values, the requested URL, the fetched text and the raw
\* mapping as its analysis.
C4_AsStated == FetchedAndMapped => OneRowFromAnswer

\* C4, amended: the same, when the two values are strings and no stored
\* record already has the requested URL.
C4_SingleUrlSuccess ==
    (FetchedAndMapped
       /\ analysis_results.d.job_title # JNULL
       /\ analysis_results.d.company_name # JNULL
       /\ ~ \E r \in jobs0 : r.job_url = UrlStr(job_url))
        => OneRowFromAnswer

C4_Witness ==
    /\ FetchedAndMapped /\ OneRowFromAnswer
    /\ job_url = "https://a.example"
    /\ jobs0 # {}

\* C5: when the content fetcher fails on the input URL (the provider call
\* was made and gave no content), the run is over, Aborted with the fetch
\* failure reason, no other external call was made and storage is untouched.
C5_FetchFailureTerminal ==
    (kind # "none" /\ calls.fetch = 1
       /\ (scraped_content = NoneStr \/ scraped_content = ""))
        => /\ pc = "done"
           /\ outcome = Aborted(IF kind = "single" THEN "Failed to scrape URL."
                                ELSE "fetch-failed")
           /\ calls = Count(NoCalls, "fetch")
           /\ jobs = jobs0
           /\ job_links = << >> /\ scraped_items = << >> /\ staged = << >>
           /\ analysis_results = JNone

C5_Witness ==
    /\ SingleDone /\ calls.fetch = 1 /\ scraped_content = ""
    /\ outcome = Aborted("Failed to scrape URL.")

\* C6: when the link extractor returned no link, the batch run is over,
\* Aborted("no-links-found"), and the bulk fetcher was not called: no bulk
\* call is counted and nothing was fetched, analyzed, staged or stored.
C6_EmptyLinkTermination ==
    (kind = "batch" /\ calls.links = 1 /\ job_links = << >>)
        => /\ pc = "done"
           /\ outcome = Aborted("no-links-found")
           /\ calls.bulk = 0 /\ calls.analyze = 0 /\ calls.persist = 0
           /\ scraped_items = << >> /\ staged = << >>
           /\ jobs = jobs0

C6_Witness ==
    /\ BatchDone /\ calls.links = 1 /\ job_links = << >>
    /\ outcome = Aborted("no-links-found")

\* C7: when the bulk fetcher returned the empty sequence, the batch run is
\* over, Aborted("bulk-fetch-failed"), and the per-item loop was not
\* entered: no field-extractor call, nothing logged, staged or stored.
C7_EmptyBulkTermination ==
    (kind = "batch" /\ calls.bulk = 1 /\ scraped_items = << >>)
        => /\ pc = "done"
           /\ outcome = Aborted("bulk-fetch-failed")
           /\ idx = 0 /\ item_log = << >> /\ staged = << >>
           /\ calls.analyze = 0 /\ calls.persist = 0
           /\ jobs = jobs0

C7_Witness ==
    /\ BatchDone /\ calls.bulk = 1 /\ scraped_items = << >>
    /\ job_links # << >>
    /\ outcome = Aborted("bulk-fetch-failed")

\* The rows the batch commit writes for the staged candidates.
StagedPersisted ==
    /\ Cardinality(NewRows) = Len(staged)
    /\ \A i \in 1..Len(staged) : \E r \in NewRows :
          /\ r.job_title = staged[i].job_title
          /\ r.company_name = staged[i].company_name
          /\ r.job_url = staged[i].job_url
          /\ r.job_description = staged[i].job_description
          /\ r.analysis_results = staged[i].analysis_results

\* C8 as stated: a batch run that staged nothing ends
\* Aborted("no-valid-jobs") with storage unchanged; any other ends
\* Completed(count), count the number of staged candidates, with exactly
\* those candidates persisted.
C8_AsStated ==
    LoopDone =>
        IF staged = << >>
        THEN outcome = Aborted("no-valid-jobs") /\ jobs = jobs0
        ELSE outcome = Completed(Len(staged)) /\ StagedPersisted

\* C8, amended: a batch run that staged nothing ends
\* Aborted("no-valid-jobs") with storage unchanged; one whose staged
\* candidates include a sourceUrl that is already stored, or the same
\* sourceUrl twice, ends with the storage conflict raised and storage
\* unchanged; any other ends Completed(count), count the number of staged
\* candidates, with exactly those candidates persisted.
C8_CommitStep ==
    LoopDone =>
        IF staged = << >>
        THEN outcome = Aborted("no-valid-jobs") /\ jobs = jobs0
        ELSE IF StagedConflict
        THEN outcome = Raised("IntegrityError") /\ jobs = jobs0
        ELSE outcome = Completed(Len(staged)) /\ StagedPersisted

C8_Witness ==
    /\ LoopDone /\ Len(staged) = 2
    /\ outcome = Completed(2) /\ StagedPersisted

\* The bulk fetcher was called and returned.
BulkReturned == batch_response # NoResponse /\ bulk_result.exc = ""

Returned == bulk_result.val

\* C9 as stated: every item the bulk fetcher returns has non-empty content
\* and carries a URL its sourceUrl can be recovered from.
C9_AsStated ==
    BulkReturned =>
        \A i \in 1..Len(Returned) :
            /\ Returned[i].markdown # NoneStr /\ Returned[i].markdown # ""
            /\ SourceUrl(Returned[i]) # ABSENT

\* C9, amended: every item the bulk fetcher returns is marked successful,
\* has non-empty content, and carries the url and metadata of a provider
\* item with that content, as the provider gave them (which may be none).
C9_OnlySuccessfulFetches ==
    BulkReturned =>
        \A i \in 1..Len(Returned) :
            /\ Returned[i].success = "True"
            /\ Returned[i].markdown # NoneStr /\ Returned[i].markdown # ""
            /\ \E j \in 1..Len(batch_response.items) :
                  /\ batch_response.items[j].markdown = Returned[i].markdown
                  /\ batch_response.items[j].url = Returned[i].url
                  /\ batch_response.items[j].metadata = Returned[i].metadata

C9_Witness ==
    /\ BulkReturned /\ Len(Returned) = 2
    /\ SourceUrl(Returned[1]) = ABSENT
    /\ SourceUrl(Returned[2]) = U_B

\* An item the bulk fetcher must drop: an unrecognized shape, a failed fetch
\* or one without content.
ItemFails(item) ==
    \/ item.shape \notin {"doc", "dict", "tuple"}
    \/ item.markdown = NoneStr \/ item.markdown = ""
    \/ item.shape \in {"dict", "tuple"} /\ item.success # "True"

\* C10: the bulk fetcher raises for no provider response (its only
\* exception is the missing API key, before any provider call): a provider
\* error or an unrecognized response gives the empty sequence, and otherwise
\* the result is the response's items without the failing ones, so the
\* empty sequence when every item fails.
C10_BulkNeverRaises ==
    (batch_response # NoResponse) =>
        /\ bulk_result.exc # "" => ~FIRECRAWL_API_KEY
        /\ FIRECRAWL_API_KEY =>
              /\ bulk_result.exc = ""
              /\ batch_response.t \in {"error", "other"} => Returned = << >>
              /\ batch_response.t \in {"list", "data"} =>
                    /\ Len(Returned) =
                          Cardinality({ j \in 1..Len(batch_response.items) :
                                           ~ItemFails(batch_response.items[j]) })
                    /\ (\A j \in 1..Len(batch_response.items) :
                           ItemFails(batch_response.items[j])) => Returned = << >>

C10_Witness ==
    /\ FIRECRAWL_API_KEY /\ bulk_result.exc = ""
    /\ batch_response.t = "list" /\ Len(batch_response.items) = 2
    /\ \A j \in 1..2 : ItemFails(batch_response.items[j])
    /\ batch_response.items[1].shape = "other"
    /\ batch_response.items[2].success = "False"
    /\ Returned = << >>

-----------------------------------------------------------------------------
(* The link extractor (SpecLinks).                                         *)

Extracted == link_answer # NoAnswer

\* The answer is not a single object with a list under "job_urls".
WrongShape(a) == a.t = "json" /\ ~(a.j.k = "dict" /\ a.j.urls_k = "list")

\* C11: whenever the model call raises, its text is not JSON, or the JSON
\* is not one object holding a list under "job_urls", the link extractor
\* returns the empty list; it raises nothing once the model has been
\* called (the one exception it raises is for an API key that is not set,
\* before any call).
C11_LinkShapeValidation ==
    Extracted =>
        /\ (link_result.exc # "" => ~GEMINI_API_KEY /\ link_result.exc = "ValueError")
        /\ (GEMINI_API_KEY /\ (link_answer.t \in {"error", "text"} \/ WrongShape(link_answer))
               => link_result = Ret(<< >>))

\* a bare list of job links, not wrapped in an object, yields no links
C11_Witness ==
    /\ Extracted /\ GEMINI_API_KEY
    /\ link_answer.t = "json" /\ link_answer.j.k = "list"
    /\ link_answer.j.l = << U_B, U_C >>
    /\ link_result = Ret(<< >>)

\* A fully-qualified link to a job posting.
WellFormedUrl(e) == e \in {U_B, U_C}

\* C12 as stated: every element of the list the link extractor returns is
\* a well-formed URL string, whatever the model put in its list.
C12_AsStated ==
    Extracted =>
        \A i \in 1..Len(link_result.val) : WellFormedUrl(link_result.val[i])

\* C12: the link extractor returns links only for an answer that is one
\* object with a list under "job_urls", and then it returns that list as the
\* model wrote it: same elements, same order, nothing discarded.
C12_ReturnsModelList ==
    (Extracted /\ link_result.exc = "") =>
        /\ (link_answer.t = "json" /\ ~WrongShape(link_answer))
             => link_result.val = link_answer.j.l
        /\ link_result.val # << >>
             => (link_answer.t = "json" /\ ~WrongShape(link_answer))

\* a link text and a null come back with the job link
C12_Witness ==
    /\ Extracted
    /\ link_answer.j.l = << "Apply now", JNULL >>
    /\ link_result = Ret(<< "Apply now", JNULL >>)

-----------------------------------------------------------------------------
(* The single-URL run and its failures (Spec).                             *)

\* The answer the Field Extractor handed back is not a record: nothing (the
\* model call raised or its text was not JSON), a value of another type, an
\* empty list, or a list whose first element is not a record.
Malformed(j) ==
    \/ j.k \in {"none", "str"}
    \/ j.k = "list" /\ (Len(j.l) = 0 \/ j.l[1].k # "dict")

AnalysisFailureReasons ==
    { "Failed to analyze job description.",
      "LLM analysis returned an empty list.",
      "LLM analysis returned an unexpected type." }

\* C13: when the model call errors or its output is malformed (not JSON,
\* wrong type, empty list, list whose first element is not a record), the
\* single-URL run ends Aborted with an analysis-failure reason and no record
\* persisted; no exception escapes.
C13_ExtractorFailureSignalled ==
    (SingleDone /\ calls.analyze = 1 /\ Malformed(analysis_results))
        => /\ outcome.status = "Aborted"
           /\ outcome.detail \in AnalysisFailureReasons
           /\ jobs = jobs0

\* C15: every row a pipeline run created is, in every state another request
\* can observe, present with all of its staged fields: description and
\* analysis are never missing from it.
C15_NoPartialWrites ==
    \A r \in jobs :
        r.id \in created =>
            /\ r.job_description # NoneStr
            /\ r.analysis_results # JNone

FetchFailed(resp) ==
    \/ resp.t \in {"error", "status"}
    \/ resp.markdown \in {NoneStr, ""}

\* C16: a provider error, a non-success status and empty content all end
\* the single-URL run in the same abort ("Failed to scrape URL.", nothing
\* analyzed, nothing persisted), and the run gets past the fetch step only
\* after a fetch that returned content.
C16_FetchFailureCollapse ==
    (kind = "single" /\ scrape_response # NoScrape) =>
        /\ FetchFailed(scrape_response)
             <=> (pc = "done" /\ outcome = Aborted("Failed to scrape URL."))
        /\ FetchFailed(scrape_response)
             => /\ calls = Count(NoCalls, "fetch")
                /\ analysis_results = JNone
                /\ jobs = jobs0
        /\ ~FetchFailed(scrape_response)
             => scraped_content = scrape_response.markdown

\* the provider answered with a non-success status
C16_Witness ==
    /\ SingleDone
    /\ scrape_response.t = "status"
    /\ outcome = Aborted("Failed to scrape URL.")

-----------------------------------------------------------------------------
(* The stored records over time (SpecStore).                               *)

UniqueUrls ==
    \A r1, r2 \in jobs : (r1.job_url = r2.job_url \/ r1.id = r2.id) => r1 = r2

\* The step is the CRUD request op.
CrudStep(op) == nOps' = nOps + 1 /\ last_op'.op = op

\* POST /jobs/ with a URL that is stored already is answered with the
\* conflict and changes nothing; with a new URL it adds exactly one row.
CreateRejectsDuplicate ==
    CrudStep("create") =>
        IF \E r \in jobs : r.job_url = UrlStr(last_op'.url)
        THEN last_op'.code = 500 /\ jobs' = jobs /\ nextId' = nextId
        ELSE /\ last_op'.code = 201
             /\ jobs' = jobs \cup {Row(nextId, "Manual title", "Manual company",
                                        UrlStr(last_op'.url))}

\* A pipeline run whose insert meets a stored URL ends with the conflict
\* raised, and the step changes no record.
RunPropagatesConflict ==
    /\ (kind = "single" /\ pc = "create" /\ pc' # "create"
          /\ \E r \in jobs : r.job_url = UrlStr(job_url))
         => (outcome' \in {Raised("IntegrityError"), Raised("AttributeError"),
                           Raised("ValidationError")} /\ jobs' = jobs)
    /\ (outcome' # outcome /\ outcome' = Raised("IntegrityError")) => jobs' = jobs

\* C14: in every state reachable by create, update, delete and pipeline
\* runs no two records share a job_url; an insert whose URL is stored
\* already is rejected, the conflict reaches the caller, and the records
\* are unchanged.
C14_UniqueSourceUrl ==
    /\ []UniqueUrls
    /\ [][CreateRejectsDuplicate /\ RunPropagatesConflict]_vars

\* the URL sent without a path meets the row stored with "/"
C14_Witness ==
    /\ last_op.op = "create" /\ last_op.code = 500
    /\ last_op.url = "https://a.example"
    /\ \E r \in jobs : r.job_url = "https://a.example/"
    /\ Cardinality(jobs) = 1

Known(table, id) == \E r \in table : r.id = id

\* The row keeps every field but those the request set.
OnlySetFieldsChanged(r, r2, upd) ==
    /\ r2.id = r.id
    /\ r2.job_url = r.job_url
    /\ r2.job_description = r.job_description
    /\ r2.analysis_results = r.analysis_results
    /\ r2.job_title = IF upd.job_title = UNSET THEN r.job_title ELSE upd.job_title
    /\ r2.company_name = IF upd.company_name = UNSET THEN r.company_name
                         ELSE upd.company_name
    /\ r2.status = IF upd.status = UNSET THEN r.status ELSE upd.status

MissingIdIs404 ==
    \A op \in {"read", "update", "delete"} :
        (CrudStep(op) /\ ~Known(jobs, last_op'.id))
            => last_op'.code = 404 /\ jobs' = jobs

UpdateChangesOnlySetFields ==
    (CrudStep("update") /\ Known(jobs, last_op'.id)) =>
        /\ last_op'.code # 404
        /\ Cardinality(jobs') = Cardinality(jobs)
        /\ \A r \in jobs :
              IF r.id = last_op'.id
              THEN \E r2 \in jobs' : OnlySetFieldsChanged(r, r2, last_op'.upd)
              ELSE r \in jobs'

\* C18: a read, update or delete of an id that is not stored answers 404
\* and leaves every record as it was; an update of a stored id changes only
\* the fields the request set (title, company, status) and never job_url,
\* job_description or analysis_results.
C18_MissingIdAndUpdateFrame ==
    [][MissingIdIs404 /\ UpdateChangesOnlySetFields]_vars

\* a row the pipeline created, after an update that set only its title
C18_Witness ==
    /\ last_op.op = "update" /\ last_op.code = 200
    /\ last_op.upd = JobUpdate("Staff Engineer", UNSET, UNSET)
    /\ \E r \in jobs :
          /\ r.id = last_op.id
          /\ r.job_title = "Staff Engineer"
          /\ r.company_name = "Acme"
          /\ r.job_description = "We are hiring"
          /\ r.analysis_results # JNone

====
